---- MODULE Spec2Model ----
(***************************************************************************)
(* Team availability and conversation assignment engine.                   *)
(*                                                                         *)
(* The availability store (user_availability rows, availability_history    *)
(* rows), the operations of lib/data/userAvailability (updateUser-         *)
(* Availability, recordUserActivity, processScheduledStatusChanges), the   *)
(* availability router, and autoAssignConversation with its selection      *)
(* algorithm.  Every await of the source is a separate step of the calling *)
(* process, so that concurrent calls interleave where the code lets them.  *)
(***************************************************************************)
EXTENDS Integers, Sequences, FiniteSets, TLC

VARIABLES
    clock,                 \* wall clock (new Date()), in ticks of MsPerTick ms
    userAvailability,      \* table user_availability: a sequence of rows
    availabilityHistory,   \* table availability_history: append-only sequence
    conversations,         \* table conversations: id -> row
    baseWorkload,          \* other open conversations already assigned, per user
    roster,                \* getUsersWithMailboxAccess: user -> role, keywords
    cache,                 \* cacheFor(round-robin key): mailbox -> cursor
    proc,                  \* the calls in flight: process -> frame
    calls,                 \* number of calls begun so far
    statusSince,           \* history variable: when the pair's status last changed
    transitions            \* history variable: status changes per pair

vars == <<clock, userAvailability, availabilityHistory, conversations,
          baseWorkload, roster, cache, proc, calls, statusSince, transitions>>

-----------------------------------------------------------------------------
(* Bounds of the model *)

MaxTime == 2
MaxCalls == 2
Deadline == 1
MsPerTick == 500

Users == {"u1", "u2"}
RosterOrder == <<"u1", "u2">>
Mailboxes == {1, 2}
Procs == {"p1", "p2"}
ConvIds == {1, 2}
Pairs == Users \X Mailboxes

-----------------------------------------------------------------------------
(* Data model *)

availabilityStatusEnum == {"online", "busy", "away", "offline"}
ChangeReasons == {"manual", "auto_activity", "auto_inactivity", "business_hours", "scheduled"}

\* a key absent from an updates object (undefined), and SQL/JS null
NoStatus == "undefined"
NoText == "undefined"
NullText == "null"
NoTime == -2
NullTime == -1

AUTO_AWAY_MINUTES == 15
AutoAwayTicks == (AUTO_AWAY_MINUTES * 60 * 1000) \div MsPerTick

\* Partial<UserAvailabilityData> & { changeReason }
Updates(status, customMessage, lastActivityAt, autoAwayAt, scheduledReturnAt, businessHours, changeReason) ==
    [status |-> status, customMessage |-> customMessage, lastActivityAt |-> lastActivityAt,
     autoAwayAt |-> autoAwayAt, scheduledReturnAt |-> scheduledReturnAt,
     businessHours |-> businessHours, changeReason |-> changeReason]

NoUpdates == Updates(NoStatus, NoText, NoTime, NoTime, NoTime, NoText, "manual")

\* the rows of one (user, mailbox) pair, in table order
RowsOf(rows, u, m) == SelectSeq(rows, LAMBDA r : r.userId = u /\ r.mailboxId = m)

Range(s) == {s[i] : i \in DOMAIN s}

\* findFirst without ORDER BY: any matching row, or none; the result is a
\* sequence of length 0 (null) or 1
getUserAvailability(rows, u, m) ==
    IF RowsOf(rows, u, m) = <<>> THEN {<<>>} ELSE {<<r>> : r \in Range(RowsOf(rows, u, m))}

\* Math.floor((now.getTime() - lastStatusChangeAt.getTime()) / 1000)
DurationSeconds(nowT, sinceT) == ((nowT - sinceT) * MsPerTick) \div 1000

\* (mutant) the history insert without the comparison to the current status
HistoryInsertOnAnyStatus(upd, cur) == upd.status # NoStatus

\* tx.insert(availabilityHistory).values({...}) when the status differs from
\* the one read before the transaction
HistoryInsertNeeded(upd, cur) == upd.status # NoStatus /\ upd.status # cur.status

HistoryEntry(u, m, upd, cur, nowT) ==
    [userId |-> u, mailboxId |-> m, fromStatus |-> cur.status, toStatus |-> upd.status,
     durationSeconds |-> DurationSeconds(nowT, cur.lastStatusChangeAt),
     changeReason |-> upd.changeReason]

\* lastStatusChangeAt: availabilityUpdates.status ? now : current.lastStatusChangeAt
NewLastStatusChangeAt(upd, cur, nowT) ==
    IF upd.status # NoStatus THEN nowT ELSE cur.lastStatusChangeAt

Pick(given, absent, old) == IF given = absent THEN old ELSE given

\* (mutant) the record update without the new status
PatchRowKeepsStatus(r, upd, cur, nowT) ==
    [r EXCEPT !.customMessage = Pick(upd.customMessage, NoText, r.customMessage),
              !.lastActivityAt = nowT,
              !.lastStatusChangeAt = IF upd.status # NoStatus THEN nowT ELSE cur.lastStatusChangeAt]

\* .set({ ...availabilityUpdates, lastStatusChangeAt, lastActivityAt: now })
PatchRow(r, upd, cur, nowT) ==
    [userId |-> r.userId, mailboxId |-> r.mailboxId,
     status |-> Pick(upd.status, NoStatus, r.status),
     customMessage |-> Pick(upd.customMessage, NoText, r.customMessage),
     lastActivityAt |-> nowT,
     lastStatusChangeAt |-> NewLastStatusChangeAt(upd, cur, nowT),
     autoAwayAt |-> Pick(upd.autoAwayAt, NoTime, r.autoAwayAt),
     scheduledReturnAt |-> Pick(upd.scheduledReturnAt, NoTime, r.scheduledReturnAt),
     businessHours |-> Pick(upd.businessHours, NoText, r.businessHours)]

\* .where(userId = ... AND mailboxId = ...)
UpdateMatches(r, u, m) == r.userId = u /\ r.mailboxId = m

UpdateRows(rows, u, m, upd, cur, nowT) ==
    [i \in DOMAIN rows |->
        IF UpdateMatches(rows[i], u, m) THEN PatchRow(rows[i], upd, cur, nowT) ELSE rows[i]]

\* .values({ userId, mailboxId, status: "online", lastActivityAt: now,
\*           lastStatusChangeAt: now, ...availabilityUpdates })
CreatedRow(u, m, upd, nowT) ==
    [userId |-> u, mailboxId |-> m,
     status |-> Pick(upd.status, NoStatus, "online"),
     customMessage |-> Pick(upd.customMessage, NoText, NullText),
     lastActivityAt |-> Pick(upd.lastActivityAt, NoTime, nowT),
     lastStatusChangeAt |-> nowT,
     autoAwayAt |-> Pick(upd.autoAwayAt, NoTime, NullTime),
     scheduledReturnAt |-> Pick(upd.scheduledReturnAt, NoTime, NullTime),
     businessHours |-> Pick(upd.businessHours, NoText, NullText)]

\* What can go wrong inside the transaction callback: the history insert
\* throws, the record write throws, or the awaited publishToRealtime throws
TxOutcomes == {"ok", "insert_failed", "write_failed", "publish_failed"}

OutcomePossible(upd, cur, outcome) ==
    outcome = "insert_failed" => (cur # <<>> /\ HistoryInsertNeeded(upd, cur[1]))

\* The callback of db.transaction, lines 320-398: the writes it issued on tx
\* before it returned or threw
TxWrites(rows, hist, u, m, upd, cur, nowT, outcome) ==
    IF cur # <<>>
    THEN LET ins == HistoryInsertNeeded(upd, cur[1])
             inserted == ins /\ outcome # "insert_failed"
             wrote == outcome \notin {"insert_failed", "write_failed"}
         IN  [rows |-> IF wrote THEN UpdateRows(rows, u, m, upd, cur[1], nowT) ELSE rows,
              hist |-> IF inserted THEN Append(hist, HistoryEntry(u, m, upd, cur[1], nowT)) ELSE hist,
              inserted |-> inserted,
              threw |-> outcome # "ok" \/ RowsOf(rows, u, m) = <<>>]
    ELSE [rows |-> IF outcome = "write_failed" THEN rows
                   ELSE Append(rows, CreatedRow(u, m, upd, nowT)),
          hist |-> hist,
          inserted |-> FALSE,
          threw |-> outcome # "ok"]

\* (mutant) the writes issued on db instead of tx: nothing is rolled back
updateUserAvailabilityNoTx(rows, hist, u, m, upd, cur, nowT, outcome) ==
    TxWrites(rows, hist, u, m, upd, cur, nowT, outcome)

\* db.transaction(async (tx) => ...): the writes issued on tx are committed
\* when the callback returns and rolled back when it throws
updateUserAvailabilityTx(rows, hist, u, m, upd, cur, nowT, outcome) ==
    LET w == TxWrites(rows, hist, u, m, upd, cur, nowT, outcome)
    IN  IF w.threw THEN [w EXCEPT !.rows = rows, !.hist = hist] ELSE w

\* availability_history.durationSeconds is nullable
NullDuration == -1

\* the rows of getAvailabilityAnalytics' query: of the mailbox, createdAt
\* within [startDate, endDate] (both ends included).  The order of the rows
\* (createdAt descending) has no effect on the sums and counts below.
HistoryInRange(hist, m, startDate, endDate) ==
    SelectSeq(hist, LAMBDA e : /\ e.mailboxId = m
                               /\ e.createdAt >= startDate /\ e.createdAt <= endDate)

\* if (record.durationSeconds): null and 0 are both falsy
HasTruthyDuration(e) == e.durationSeconds # NullDuration /\ e.durationSeconds # 0

RECURSIVE TotalDuration(_)
TotalDuration(history) ==
    IF history = <<>> THEN 0
    ELSE (IF HasTruthyDuration(Head(history)) THEN Head(history).durationSeconds ELSE 0)
         + TotalDuration(Tail(history))

\* The quotient num / den of two numbers, kept as the pair
Quotient(num, den) == [num |-> num, den |-> den]

\* getAvailabilityAnalytics, lines 430-493.  No code writes sessionData, so
\* the productivity metrics are those of rows without it.
getAvailabilityAnalytics(hist, m, startDate, endDate) ==
    LET history == HistoryInRange(hist, m, startDate, endDate)
    IN  [totalSessions |-> Len(history),
         averageSessionDuration |->
            IF Len(history) > 0 THEN Quotient(TotalDuration(history), Len(history))
            ELSE Quotient(0, 1),
         statusDistribution |->
            [s \in availabilityStatusEnum |->
                Cardinality({i \in DOMAIN history :
                    HasTruthyDuration(history[i]) /\ history[i].fromStatus = s})],
         productivityMetrics |->
            [totalConversationsHandled |-> 0, totalMessagesReplied |-> 0,
             averageResponseTime |-> 0]]

NoAnalytics == getAvailabilityAnalytics(<<>>, 0, 0, 0)

-----------------------------------------------------------------------------
(* Calls in flight.  A frame is the position and the locals of one call. *)

\* how a call ended: kind is "ok", "error", "skipped" or "assigned"; detail is
\* the statement that threw, the reason of the skip or the assignee; inserted
\* tells whether the last transaction of the call issued a history insert
Result(kind, detail, inserted) == [kind |-> kind, detail |-> detail, inserted |-> inserted]
NoResult == Result("none", "none", FALSE)

Idle(result) ==
    [pc |-> "idle", op |-> "none", userId |-> "none", mailboxId |-> 0,
     updates |-> NoUpdates, current |-> <<>>, now |-> 0,
     scheduledReturns |-> <<>>, pending |-> <<>>, sweepNow |-> 0,
     convId |-> 0, membersWithScores |-> <<>>, top |-> <<>>, lastAssignedIndex |-> 0,
     selected |-> "none",
     startDate |-> 0, endDate |-> 0, analytics |-> NoAnalytics,
     result |-> result]

Frame(pc, op, u, m, upd) ==
    [Idle(NoResult) EXCEPT !.pc = pc, !.op = op, !.userId = u, !.mailboxId = m, !.updates = upd]

CanBegin(p) == proc[p].pc = "idle" /\ calls < MaxCalls

UnchangedStores ==
    UNCHANGED <<userAvailability, availabilityHistory, conversations,
                baseWorkload, roster, cache, statusSince, transitions>>

\* new Date(): the clock never runs backwards; a reading is the time of the
\* last reading or later
ClockReadings == {clock} \cup {t \in {clock + 1} : t <= MaxTime}

\* a call begins
Begun == calls' = calls + 1

\* updateUserAvailability, lines 314-315: the read that precedes the
\* transaction, and the timestamp of the call
\* (of current the transaction uses status and lastStatusChangeAt only)
Snapshot(cur) ==
    IF cur = <<>> THEN <<>>
    ELSE <<[status |-> cur[1].status, lastStatusChangeAt |-> cur[1].lastStatusChangeAt]>>

ReadCurrent(f, cur, t) == [f EXCEPT !.current = Snapshot(cur), !.now = t, !.pc = "uua_tx"]

\* availabilityRouter.updateStatus, up to the read of the current record
updateStatus(p, u, m, status, message) ==
    /\ CanBegin(p)
    /\ \E cur \in getUserAvailability(userAvailability, u, m), t \in ClockReadings :
          /\ clock' = t
          /\ proc' = [proc EXCEPT ![p] = ReadCurrent(Frame("uua_read", "updateStatus", u, m,
                      Updates(status, message, NoTime, NoTime, NoTime, NoText, "manual")), cur, t)]
    /\ Begun
    /\ UnchangedStores

\* availabilityRouter.setBusinessHours
setBusinessHours(p, u, m) ==
    /\ CanBegin(p)
    /\ \E cur \in getUserAvailability(userAvailability, u, m), t \in ClockReadings :
          /\ clock' = t
          /\ proc' = [proc EXCEPT ![p] = ReadCurrent(Frame("uua_read", "setBusinessHours", u, m,
                      Updates(NoStatus, NoText, NoTime, NoTime, NoTime, "hours", "manual")), cur, t)]
    /\ Begun
    /\ UnchangedStores

\* availabilityRouter.setScheduledReturn: customMessage is input.message || null
setScheduledReturn(p, u, m, returnAt, message) ==
    /\ CanBegin(p)
    /\ \E cur \in getUserAvailability(userAvailability, u, m), t \in ClockReadings :
          /\ clock' = t
          /\ proc' = [proc EXCEPT ![p] = ReadCurrent(Frame("uua_read", "setScheduledReturn", u, m,
                      Updates("away", Pick(message, NoText, NullText), NoTime, NoTime, returnAt,
                              NoText, "manual")), cur, t)]
    /\ Begun
    /\ UnchangedStores

\* a direct call of the exported updateUserAvailability that arms the
\* auto-away deadline of the record
armAutoAway(p, u, m, at) ==
    /\ CanBegin(p)
    /\ \E cur \in getUserAvailability(userAvailability, u, m), t \in ClockReadings :
          /\ clock' = t
          /\ proc' = [proc EXCEPT ![p] = ReadCurrent(Frame("uua_read", "armAutoAway", u, m,
                      Updates(NoStatus, NoText, NoTime, at, NoTime, NoText, "manual")), cur, t)]
    /\ Begun
    /\ UnchangedStores

\* (mutant) the activity ping that brings back an away user only
ActivityUpdatesAwayOnly(cur, nowT) ==
    IF cur = <<>>
    THEN Updates("online", NoText, NoTime, NoTime, NoTime, NoText, "auto_activity")
    ELSE Updates(IF cur[1].status = "away" THEN "online" ELSE NoStatus,
                 NoText, nowT,
                 IF cur[1].autoAwayAt # NullTime THEN nowT + AutoAwayTicks ELSE NoTime,
                 NoTime, NoText,
                 IF cur[1].status = "away" THEN "auto_activity" ELSE "manual")

\* recordUserActivity, lines 403-425: the updates it passes on
ActivityUpdates(cur, nowT) ==
    IF cur = <<>>
    THEN Updates("online", NoText, NoTime, NoTime, NoTime, NoText, "auto_activity")
    ELSE Updates(IF cur[1].status \in {"offline", "away"} THEN "online" ELSE NoStatus,
                 NoText, nowT,
                 IF cur[1].autoAwayAt # NullTime THEN nowT + AutoAwayTicks ELSE NoTime,
                 NoTime, NoText,
                 IF cur[1].status \in {"offline", "away"} THEN "auto_activity" ELSE "manual")

\* recordUserActivity up to its call of updateUserAvailability
ActivityFrame(f, cur, t) ==
    [f EXCEPT !.pc = "uua_read", !.updates = ActivityUpdates(cur, t)]

\* availabilityRouter.recordActivity
recordActivity(p, u, m) ==
    /\ CanBegin(p)
    /\ \E cur \in getUserAvailability(userAvailability, u, m), t \in ClockReadings :
          /\ clock' = t
          /\ proc' = [proc EXCEPT ![p] = ActivityFrame(Frame("rua_read", "recordActivity", u, m, NoUpdates), cur, t)]
    /\ Begun
    /\ UnchangedStores

\* updateUserAvailability called from recordUserActivity or from the sweep:
\* its own read of the current record
UuaRead(p) ==
    /\ proc[p].pc = "uua_read"
    /\ \E cur \in getUserAvailability(userAvailability, proc[p].userId, proc[p].mailboxId),
          t \in ClockReadings :
          /\ clock' = t
          /\ proc' = [proc EXCEPT ![p] = ReadCurrent(proc[p], cur, t)]
    /\ UNCHANGED calls
    /\ UnchangedStores

\* findMany(scheduledReturnAt <= now AND status = 'away')
ScheduledReturns(rows, nowT) ==
    SelectSeq(rows, LAMBDA r : r.scheduledReturnAt # NullTime /\ r.scheduledReturnAt <= nowT
                               /\ r.status = "away")

\* findMany(autoAwayAt <= now AND status = 'online')
AutoAwayUsers(rows, nowT) ==
    SelectSeq(rows, LAMBDA r : r.autoAwayAt # NullTime /\ r.autoAwayAt <= nowT
                               /\ r.status = "online")

ReturnUpdates == Updates("online", NoText, NoTime, NoTime, NullTime, NoText, "scheduled")
AwayUpdates == Updates("away", NoText, NoTime, NullTime, NoTime, NoText, "auto_inactivity")

\* the for loops of processScheduledStatusChanges: the next call of
\* updateUserAvailability, or the second query, or the end
SweepLoop(f, list, pass) ==
    IF list # <<>>
    THEN [f EXCEPT !.pc = "uua_read", !.userId = list[1].userId, !.mailboxId = list[1].mailboxId,
                   !.updates = IF pass = "returns" THEN ReturnUpdates ELSE AwayUpdates,
                   !.pending = Tail(list), !.current = <<>>]
    ELSE IF pass = "returns"
         THEN [f EXCEPT !.pc = "sweep_away", !.userId = "none", !.mailboxId = 0,
                        !.updates = NoUpdates, !.pending = <<>>, !.current = <<>>, !.now = 0]
         ELSE [Idle(Result("ok", "sweep", FALSE)) EXCEPT !.sweepNow = f.sweepNow]

\* the (user, mailbox) pairs of the rows a query returned
PairsOfRows(list) == [i \in DOMAIN list |-> <<list[i].userId, list[i].mailboxId>>]

\* processScheduledStatusChanges up to its first query (lines 496-500)
SweepBegin(p) ==
    \E t \in ClockReadings :
       /\ clock' = t
       /\ proc' = [proc EXCEPT ![p] =
             SweepLoop([Frame("sweep_returns", "sweep", "none", 0, NoUpdates)
                          EXCEPT !.sweepNow = t,
                                 !.scheduledReturns = PairsOfRows(ScheduledReturns(userAvailability, t))],
                       ScheduledReturns(userAvailability, t), "returns")]

\* a call of processScheduledStatusChanges
sweep(p) ==
    /\ CanBegin(p)
    /\ SweepBegin(p)
    /\ Begun
    /\ UnchangedStores

\* processScheduledStatusChanges invoked on its fixed cadence, without end
scheduledSweep(p) ==
    /\ proc[p].pc = "idle"
    /\ SweepBegin(p)
    /\ UNCHANGED calls
    /\ UnchangedStores

\* the second query (lines 510-512), with the now of line 496
SweepAway(p) ==
    /\ proc[p].pc = "sweep_away"
    /\ proc' = [proc EXCEPT ![p] =
          SweepLoop(proc[p], AutoAwayUsers(userAvailability, proc[p].sweepNow), "away")]
    /\ UNCHANGED <<calls, clock>>
    /\ UnchangedStores

\* where a call of updateUserAvailability returns to
AfterUpdate(f, w, outcome) ==
    IF w.threw THEN [Idle(Result("error", outcome, w.inserted)) EXCEPT !.convId = f.convId]
    ELSE IF f.op = "sweep"
         THEN SweepLoop(f, f.pending, IF f.updates = ReturnUpdates THEN "returns" ELSE "away")
         ELSE IF f.op = "autoAssign"
              THEN [f EXCEPT !.pc = "aa_commit", !.updates = NoUpdates, !.current = <<>>, !.now = 0,
                             !.result = Result("none", "none", w.inserted)]
              ELSE Idle(Result("ok", "none", w.inserted))

StatusesOf(rows, u, m) == {r.status : r \in Range(RowsOf(rows, u, m))}

\* updateUserAvailability, lines 319-399: the transaction, with the broadcast
\* awaited inside it
UuaTx(p) ==
    /\ proc[p].pc = "uua_tx"
    /\ \E outcome \in TxOutcomes :
         /\ OutcomePossible(proc[p].updates, proc[p].current, outcome)
         /\ LET f == proc[p]
                 u == f.userId
                 m == f.mailboxId
                 r == updateUserAvailabilityTx(userAvailability, availabilityHistory, u, m,
                                               f.updates, f.current, f.now, outcome)
                 created == RowsOf(userAvailability, u, m) = <<>> /\ RowsOf(r.rows, u, m) # <<>>
                 changed == RowsOf(userAvailability, u, m) # <<>>
                            /\ StatusesOf(r.rows, u, m) # StatusesOf(userAvailability, u, m)
             IN  /\ userAvailability' = r.rows
                 /\ availabilityHistory' = r.hist
                 /\ proc' = [proc EXCEPT ![p] = AfterUpdate(f, r, outcome)]
                 /\ statusSince' = IF created \/ changed
                                   THEN [statusSince EXCEPT ![<<u, m>>] = f.now] ELSE statusSince
                 /\ transitions' = IF changed
                                   THEN [transitions EXCEPT ![<<u, m>>] = @ + 1] ELSE transitions
    /\ UNCHANGED <<clock, conversations, baseWorkload, roster, cache, calls>>

-----------------------------------------------------------------------------
(* Conversation assignment *)

NoUser == "null"
\* no value under the round-robin cache key
NoCursor == -1
UserRoles == {"core", "nonCore", "afk"}

WORKLOAD_THRESHOLDS == [online |-> 8, busy |-> 3, away |-> 0, offline |-> 0]
PRIORITY_SCORES == [online |-> 100, busy |-> 50, away |-> 0, offline |-> 0]

Min(a, b) == IF a < b THEN a ELSE b
Max(a, b) == IF a > b THEN a ELSE b

\* the SQL of getTeamWorkloadDistribution: open conversations of the mailbox
\* assigned to the user
OpenConversationCount(convs, base, u, m) ==
    base[u] + Cardinality({c \in ConvIds : /\ convs[c].mailboxId = m
                                           /\ convs[c].status = "open"
                                           /\ convs[c].assignedToId = u})

\* workloadMap.get(member.id): new Map(...) keeps the last entry of a user in
\* the list ordered by lastActivityAt descending, the row of oldest activity
WorkloadRow(rows, u, m) ==
    LET mine == RowsOf(rows, u, m)
        oldest == CHOOSE i \in DOMAIN mine :
                     \A j \in DOMAIN mine :
                        mine[i].lastActivityAt < mine[j].lastActivityAt
                        \/ (mine[i].lastActivityAt = mine[j].lastActivityAt /\ i >= j)
    IN  IF mine = <<>> THEN <<>> ELSE <<mine[oldest]>>

\* (mutant) a member without an availability record taken as online
TeamMemberDefaultOnline(rows, convs, base, team, u, m) ==
    LET w == WorkloadRow(rows, u, m)
    IN  [id |-> u, role |-> team[u].role, keywords |-> team[u].keywords,
         status |-> IF w = <<>> THEN "online" ELSE w[1].status,
         currentWorkload |-> IF w = <<>> THEN 0 ELSE OpenConversationCount(convs, base, u, m),
         isAvailableForAssignment |-> w = <<>> \/ w[1].status \in {"online", "busy"}]

\* getAvailableTeamMembers, lines 50-61: the member with its availability
TeamMember(rows, convs, base, team, u, m) ==
    LET w == WorkloadRow(rows, u, m)
    IN  [id |-> u, role |-> team[u].role, keywords |-> team[u].keywords,
         status |-> IF w = <<>> THEN "offline" ELSE w[1].status,
         currentWorkload |-> IF w = <<>> THEN 0 ELSE OpenConversationCount(convs, base, u, m),
         isAvailableForAssignment |-> w # <<>> /\ w[1].status \in {"online", "busy"}]

\* autoAssignConversation, lines 309-311
ActiveTeamMembers(team) ==
    SelectSeq(RosterOrder, LAMBDA u : team[u].role \in {"core", "nonCore"})

getAvailableTeamMembers(rows, convs, base, team, m) ==
    LET active == ActiveTeamMembers(team)
        members == [i \in DOMAIN active |-> TeamMember(rows, convs, base, team, active[i], m)]
    IN  SelectSeq(members, LAMBDA member : member.isAvailableForAssignment)

\* (mutant) the gate that lets a member at its threshold pass
canHandleWorkloadAtThreshold(member) == member.currentWorkload <= WORKLOAD_THRESHOLDS[member.status]

canHandleWorkload(member) == member.currentWorkload < WORKLOAD_THRESHOLDS[member.status]

\* getNextTeamMember, lines 262-263
MembersToConsider(available) ==
    IF SelectSeq(available, canHandleWorkload) # <<>>
    THEN SelectSeq(available, canHandleWorkload) ELSE available

\* getExpertiseMatchingMembers, lines 78-80
MembersWithKeywords(members) ==
    {member.id : member \in {x \in Range(members) : x.role \in {"core", "nonCore"} /\ x.keywords}}

\* getExpertiseMatchingMembers, lines 74-84: the external matcher is queried
\* when there is content and somebody has keywords
MatcherQueried(members, hasContent) ==
    hasContent /\ members # <<>> /\ MembersWithKeywords(members) # {}

\* what the external matcher may answer: the ids it marks as matching, among
\* the members with keywords
ExpertiseMatches(members, hasContent) ==
    IF MatcherQueried(members, hasContent) THEN SUBSET MembersWithKeywords(members) ELSE {{}}

\* await runAIObjectQuery(...) returns or rejects; nothing between the call
\* and the caller of autoAssignConversation catches the rejection
MatcherOutcomes(members, hasContent) ==
    IF MatcherQueried(members, hasContent) THEN {"ok", "matcher_failed"} ELSE {"ok"}

\* (mutant) the score without its floor
calculateMemberScoreUnfloored(member, hasExpertiseMatch) ==
    PRIORITY_SCORES[member.status] - Min(member.currentWorkload * 5, 50)
    + (IF hasExpertiseMatch THEN 25 ELSE 0)
    + (IF member.role = "core" THEN 10 ELSE 0)

calculateMemberScore(member, hasExpertiseMatch) ==
    Max(0, PRIORITY_SCORES[member.status] - Min(member.currentWorkload * 5, 50)
           + (IF hasExpertiseMatch THEN 25 ELSE 0)
           + (IF member.role = "core" THEN 10 ELSE 0))

\* (mutant) the comparator that sorts by ascending score
SortsBeforeAscending(a, b) ==
    \/ a.score < b.score
    \/ a.score = b.score /\ a.member.currentWorkload < b.member.currentWorkload

\* the comparator of membersWithScores.sort: a goes before b
SortsBefore(a, b) ==
    \/ a.score > b.score
    \/ a.score = b.score /\ a.member.currentWorkload < b.member.currentWorkload

\* Array.prototype.sort is stable: x goes behind every element it does not
\* sort before
RECURSIVE InsertSorted(_, _)
InsertSorted(x, sorted) ==
    IF sorted = <<>> THEN <<x>>
    ELSE IF SortsBefore(x, Head(sorted)) THEN <<x>> \o sorted
         ELSE <<Head(sorted)>> \o InsertSorted(x, Tail(sorted))

RECURSIVE SortMembers(_)
SortMembers(scored) ==
    IF scored = <<>> THEN <<>>
    ELSE InsertSorted(scored[Len(scored)], SortMembers(SubSeq(scored, 1, Len(scored) - 1)))

\* selectBestMember, lines 177-189: membersWithScores, sorted
MembersWithScores(members, matches) ==
    SortMembers([i \in DOMAIN members |->
                   [member |-> members[i],
                    score |-> calculateMemberScore(members[i], members[i].id \in matches),
                    hasExpertise |-> members[i].id \in matches]])

\* selectBestMember, line 191: the entries of the top score
TopCandidates(members, matches) ==
    LET sorted == MembersWithScores(members, matches)
    IN  SelectSeq(sorted, LAMBDA x : x.score = sorted[1].score)

\* (mutant) the rotation entered also with a single top candidate
NeedsTieBreakAlways(top) == TRUE

\* selectBestMember, line 193: topCandidates.length === 1 returns at once
NeedsTieBreak(top) == Len(top) # 1

\* (mutant) the precondition without the check of mergedIntoId
PreconditionSkipIgnoresMerged(conv, team) ==
    IF conv.assignedToId # NoUser THEN "already assigned"
    ELSE IF ActiveTeamMembers(team) = <<>> THEN "no active team members"
    ELSE "none"

\* autoAssignConversation, lines 303-315: the reason to skip, or "none"
PreconditionSkip(conv, team) ==
    IF conv.assignedToId # NoUser THEN "already assigned"
    ELSE IF conv.mergedIntoId # 0 THEN "conversation is merged"
    ELSE IF ActiveTeamMembers(team) = <<>> THEN "no active team members"
    ELSE "none"

Skipped(c, reason) == [Idle(Result("skipped", reason, FALSE)) EXCEPT !.convId = c]

UnchangedAvailability == UNCHANGED <<userAvailability, availabilityHistory, statusSince, transitions>>

\* autoAssignConversation up to the calls of getNextTeamMember (lines 288-315)
autoAssignConversation(p, c) ==
    /\ CanBegin(p)
    /\ Begun
    /\ LET reason == PreconditionSkip(conversations[c], roster)
       IN  proc' = [proc EXCEPT ![p] =
                IF reason # "none" THEN Skipped(c, reason)
                ELSE [Frame("aa_members", "autoAssign", "none", conversations[c].mailboxId, NoUpdates)
                        EXCEPT !.convId = c]]
    /\ UNCHANGED <<clock, conversations, baseWorkload, roster, cache>>
    /\ UnchangedAvailability

\* getNextTeamMember, lines 256-272, and selectBestMember up to the read of
\* the rotation cursor: sample the workload, gate, match, score, sort
AaMembers(p) ==
    /\ proc[p].pc = "aa_members"
    /\ LET f == proc[p]
           available == getAvailableTeamMembers(userAvailability, conversations, baseWorkload,
                                                roster, f.mailboxId)
           consider == MembersToConsider(available)
       IN  IF available = <<>>
           THEN proc' = [proc EXCEPT ![p] = Skipped(f.convId, "No team members available for assignment")]
           ELSE \E outcome \in MatcherOutcomes(consider, conversations[f.convId].hasContent),
                   matches \in ExpertiseMatches(consider, conversations[f.convId].hasContent) :
                   LET scored == MembersWithScores(consider, matches)
                       top == TopCandidates(consider, matches)
                   IN  proc' = [proc EXCEPT ![p] =
                          IF outcome # "ok"
                          THEN [Idle(Result("error", outcome, FALSE)) EXCEPT !.convId = f.convId]
                          ELSE IF ~NeedsTieBreak(top)
                          THEN [f EXCEPT !.pc = "rua_read", !.membersWithScores = scored, !.top = top,
                                         !.selected = top[1].member.id, !.userId = top[1].member.id]
                          ELSE [f EXCEPT !.pc = "aa_cache_get", !.membersWithScores = scored,
                                         !.top = top]]
    /\ UNCHANGED <<clock, conversations, baseWorkload, roster, cache, calls>>
    /\ UnchangedAvailability

\* selectBestMember, line 198: (await cache.get()) ?? 0
AaCacheGet(p) ==
    /\ proc[p].pc = "aa_cache_get"
    /\ proc' = [proc EXCEPT ![p] =
          [proc[p] EXCEPT !.pc = "aa_cache_set",
                          !.lastAssignedIndex = IF cache[proc[p].mailboxId] = NoCursor THEN 0
                                                ELSE cache[proc[p].mailboxId]]]
    /\ UNCHANGED <<clock, conversations, baseWorkload, roster, cache, calls>>
    /\ UnchangedAvailability

\* (mutant) the cursor written back without the increment
NextIndexWithoutIncrement(lastAssignedIndex, n) == lastAssignedIndex % n

\* selectBestMember, line 199
NextIndex(lastAssignedIndex, n) == (lastAssignedIndex + 1) % n

\* selectBestMember, lines 199-202: cache.set(nextIndex), topCandidates[nextIndex]
AaCacheSet(p) ==
    /\ proc[p].pc = "aa_cache_set"
    /\ LET f == proc[p]
           nextIndex == NextIndex(f.lastAssignedIndex, Len(f.top))
       IN  /\ cache' = [cache EXCEPT ![f.mailboxId] = nextIndex]
           /\ proc' = [proc EXCEPT ![p] =
                 [f EXCEPT !.pc = "rua_read", !.selected = f.top[nextIndex + 1].member.id,
                           !.userId = f.top[nextIndex + 1].member.id]]
    /\ UNCHANGED <<clock, conversations, baseWorkload, roster, calls>>
    /\ UnchangedAvailability

\* recordUserActivity called by autoAssignConversation (line 332): its read
RuaRead(p) ==
    /\ proc[p].pc = "rua_read"
    /\ \E cur \in getUserAvailability(userAvailability, proc[p].userId, proc[p].mailboxId),
          t \in ClockReadings :
          /\ clock' = t
          /\ proc' = [proc EXCEPT ![p] = ActivityFrame(proc[p], cur, t)]
    /\ UNCHANGED calls
    /\ UnchangedStores

\* updateConversation(conversation.id, { set: { assignedToId } }), lines 334-349
AaCommit(p) ==
    /\ proc[p].pc = "aa_commit"
    /\ conversations' = [conversations EXCEPT ![proc[p].convId].assignedToId = proc[p].selected]
    /\ proc' = [proc EXCEPT ![p] =
          [Idle(Result("assigned", proc[p].selected, proc[p].result.inserted))
             EXCEPT !.convId = proc[p].convId]]
    /\ UNCHANGED <<clock, baseWorkload, roster, cache, calls>>
    /\ UnchangedAvailability

-----------------------------------------------------------------------------
(* Specifications *)

Messages == {NoText, "msg"}
\* the deadline a caller sets (returnAt, autoAwayAt)
ReturnTimes == {Deadline}

\* The stores as a first updateStatus call of some users at time 0 leaves them
InitialRow(u, status) ==
    CreatedRow(u, 1, Updates(status, NoText, NoTime, NoTime, NoTime, NoText, "manual"), 0)

RECURSIVE InitialRows(_, _)
InitialRows(order, chosen) ==
    IF order = <<>> THEN <<>>
    ELSE (IF chosen[Head(order)] = NoStatus THEN <<>>
          ELSE <<InitialRow(Head(order), chosen[Head(order)])>>)
         \o InitialRows(Tail(order), chosen)

InitStores(U) ==
    /\ clock = 0
    /\ \E chosen \in [Users -> availabilityStatusEnum \cup {NoStatus}] :
          /\ \A u \in Users \ U : chosen[u] = NoStatus
          /\ userAvailability = InitialRows(RosterOrder, chosen)
          /\ statusSince = [k \in Pairs |-> IF chosen[k[1]] = NoStatus THEN NullTime ELSE 0]
    /\ availabilityHistory = <<>>
    /\ conversations = [c \in ConvIds |->
          [assignedToId |-> NoUser, mergedIntoId |-> 0, mailboxId |-> 1, status |-> "open",
           hasContent |-> TRUE]]
    /\ baseWorkload = [u \in Users |-> 0]
    /\ roster = [u \in Users |-> [role |-> "core", keywords |-> FALSE]]
    /\ cache = [m \in Mailboxes |-> NoCursor]
    /\ proc = [p \in Procs |-> Idle(NoResult)]
    /\ calls = 0
    /\ transitions = [k \in Pairs |-> 0]

\* the mailbox of the availability calls
StatusMailboxes == {1}

AvailabilityNext(P, U, Msgs) ==
    \/ \E p \in P, u \in U, m \in StatusMailboxes, s \in availabilityStatusEnum, msg \in Msgs :
          updateStatus(p, u, m, s, msg)
    \/ \E p \in P, u \in U, m \in StatusMailboxes : setBusinessHours(p, u, m)
    \/ \E p \in P, u \in U, m \in StatusMailboxes, t \in ReturnTimes, msg \in {NoText} :
          setScheduledReturn(p, u, m, t, msg)
    \/ \E p \in P, u \in U, m \in StatusMailboxes, t \in ReturnTimes : armAutoAway(p, u, m, t)
    \/ \E p \in P, u \in U, m \in StatusMailboxes : recordActivity(p, u, m)
    \/ \E p \in P : sweep(p)
    \/ \E p \in P : SweepAway(p)
    \/ \E p \in P : UuaRead(p)
    \/ \E p \in P : UuaTx(p)

\* calls run one at a time
SeqNext == AvailabilityNext({"p1"}, {"u1"}, Messages)
SeqInit == InitStores({"u1"})
SeqSpec == SeqInit /\ [][SeqNext]_vars

\* availabilityRouter.getMyStatus, part_001 lines 388-390: the value
\* getUserAvailability returns (null as the empty sequence) is the value the
\* procedure returns; the frame keeps it
getMyStatus(p, u, m) ==
    /\ proc[p].pc = "idle"
    /\ \E cur \in getUserAvailability(userAvailability, u, m) :
          proc' = [proc EXCEPT ![p] =
             [Idle(Result("ok", "status", FALSE)) EXCEPT
                 !.op = "getMyStatus", !.userId = u, !.mailboxId = m,
                 !.current = Snapshot(cur)]]
    /\ UNCHANGED <<clock, calls>>
    /\ UnchangedStores

\* calls run one at a time, the status query among them
StatusNext == SeqNext \/ \E m \in StatusMailboxes : getMyStatus("p1", "u1", m)
StatusSpec == SeqInit /\ [][StatusNext]_vars

\* two callers run concurrently on the same (user, mailbox) pair
Next == AvailabilityNext(Procs, {"u1"}, {NoText})
Init == InitStores({"u1"})
Spec == Init /\ [][Next]_vars

\* The assignment engine: one caller at a time, on a mailbox whose roster,
\* availability records, workloads, conversation and rotation cursor are any
\* of the combinations below
WorkloadValues == {0, 2, 3}
CursorValues == {NoCursor, 1}

AssignInit ==
    /\ clock = 0
    /\ \E chosen \in [Users -> availabilityStatusEnum \cup {NoStatus}] :
          /\ userAvailability = InitialRows(RosterOrder, chosen)
          /\ statusSince = [k \in Pairs |-> IF chosen[k[1]] = NoStatus THEN NullTime ELSE 0]
    /\ availabilityHistory = <<>>
    /\ \E assignee \in {NoUser, "u1"}, merged \in {0, 2}, content \in BOOLEAN :
          /\ ~(assignee # NoUser /\ merged # 0)
          /\ conversations = [c \in ConvIds |->
                IF c = 1
                THEN [assignedToId |-> assignee, mergedIntoId |-> merged, mailboxId |-> 1,
                      status |-> "open", hasContent |-> content]
                ELSE [assignedToId |-> NoUser, mergedIntoId |-> 0, mailboxId |-> 1,
                      status |-> "closed", hasContent |-> FALSE]]
    /\ baseWorkload \in [Users -> WorkloadValues]
    /\ \E roles \in [Users -> UserRoles], keywords \in BOOLEAN :
          roster = [u \in Users |-> [role |-> roles[u], keywords |-> keywords]]
    /\ \E cursor \in CursorValues : cache = [m \in Mailboxes |-> cursor]
    /\ proc = [p \in Procs |-> Idle(NoResult)]
    /\ calls = 0
    /\ transitions = [k \in Pairs |-> 0]

AssignNext ==
    \/ \E c \in {1} : autoAssignConversation("p1", c)
    \/ AaMembers("p1")
    \/ AaCacheGet("p1")
    \/ AaCacheSet("p1")
    \/ RuaRead("p1")
    \/ UuaRead("p1")
    \/ UuaTx("p1")
    \/ AaCommit("p1")

AssignSpec == AssignInit /\ [][AssignNext]_vars

\* Repeated assignment on one mailbox: two conversations, both roster members
\* online or busy, no expertise keywords; a conversation that is not open does
\* not count in the workload of its assignee
RotationCursors == {NoCursor, 0, 1, 2}

RotationInit ==
    /\ clock = 0
    /\ \E chosen \in [Users -> {"online", "busy"}] :
          /\ userAvailability = InitialRows(RosterOrder, chosen)
          /\ statusSince = [k \in Pairs |-> 0]
    /\ availabilityHistory = <<>>
    /\ \E st \in [ConvIds -> {"open", "closed"}] :
          conversations = [c \in ConvIds |->
             [assignedToId |-> NoUser, mergedIntoId |-> 0, mailboxId |-> 1, status |-> st[c],
              hasContent |-> FALSE]]
    /\ baseWorkload \in [Users -> WorkloadValues]
    /\ \E roles \in [Users -> {"core", "nonCore"}] :
          roster = [u \in Users |-> [role |-> roles[u], keywords |-> FALSE]]
    /\ \E cursor \in RotationCursors : cache = [m \in Mailboxes |-> cursor]
    /\ proc = [p \in Procs |-> Idle(NoResult)]
    /\ calls = 0
    /\ transitions = [k \in Pairs |-> 0]

RotationNext ==
    \/ \E c \in ConvIds : autoAssignConversation("p1", c)
    \/ AaMembers("p1")
    \/ AaCacheGet("p1")
    \/ AaCacheSet("p1")
    \/ RuaRead("p1")
    \/ UuaRead("p1")
    \/ UuaTx("p1")
    \/ AaCommit("p1")

RotationSpec == RotationInit /\ [][RotationNext]_vars

\* Concurrent assignment: two callers on the two conversations of a mailbox
\* whose two members are online with no other workload
RaceInit ==
    /\ clock = 0
    /\ userAvailability = InitialRows(RosterOrder, [u \in Users |-> "online"])
    /\ statusSince = [k \in Pairs |-> 0]
    /\ availabilityHistory = <<>>
    /\ \E st \in [ConvIds -> {"open", "closed"}] :
          conversations = [c \in ConvIds |->
             [assignedToId |-> NoUser, mergedIntoId |-> 0, mailboxId |-> 1, status |-> st[c],
              hasContent |-> FALSE]]
    /\ baseWorkload = [u \in Users |-> 0]
    /\ \E roles \in [Users -> {"core", "nonCore"}] :
          roster = [u \in Users |-> [role |-> roles[u], keywords |-> FALSE]]
    /\ \E cursor \in RotationCursors : cache = [m \in Mailboxes |-> cursor]
    /\ proc = [p \in Procs |-> Idle(NoResult)]
    /\ calls = 0
    /\ transitions = [k \in Pairs |-> 0]

RaceNext ==
    \/ \E p \in Procs, c \in ConvIds : autoAssignConversation(p, c)
    \/ \E p \in Procs : AaMembers(p)
    \/ \E p \in Procs : AaCacheGet(p)
    \/ \E p \in Procs : AaCacheSet(p)
    \/ \E p \in Procs : RuaRead(p)
    \/ \E p \in Procs : UuaRead(p)
    \/ \E p \in Procs : UuaTx(p)
    \/ \E p \in Procs : AaCommit(p)

RaceSpec == RaceInit /\ [][RaceNext]_vars

\* Assignment while a member changes status: caller p1 assigns a conversation
\* of the mailbox, caller p2 runs availabilityRouter.updateStatus for a member
HandoffNext ==
    \/ \E c \in ConvIds : autoAssignConversation("p1", c)
    \/ AaMembers("p1")
    \/ AaCacheGet("p1")
    \/ AaCacheSet("p1")
    \/ RuaRead("p1")
    \/ AaCommit("p1")
    \/ \E u \in Users, s \in availabilityStatusEnum : updateStatus("p2", u, 1, s, NoText)
    \/ \E p \in Procs : UuaRead(p)
    \/ \E p \in Procs : UuaTx(p)

HandoffSpec == RaceInit /\ [][HandoffNext]_vars

\* Assignment on two mailboxes: conversation c belongs to mailbox c, every
\* user has a record in both, each mailbox has its own rotation cursor
QueueStatuses == {"online", "away"}

QueueRow(u, m, status) ==
    CreatedRow(u, m, Updates(status, NoText, NoTime, NoTime, NoTime, NoText, "manual"), 0)

QueueInit ==
    /\ clock = 0
    /\ \E status \in [Pairs -> QueueStatuses] :
          userAvailability = <<QueueRow("u1", 1, status[<<"u1", 1>>]),
                               QueueRow("u2", 1, status[<<"u2", 1>>]),
                               QueueRow("u1", 2, status[<<"u1", 2>>]),
                               QueueRow("u2", 2, status[<<"u2", 2>>])>>
    /\ statusSince = [k \in Pairs |-> 0]
    /\ availabilityHistory = <<>>
    /\ \E assignee \in {NoUser, "u1"} :
          conversations = [c \in ConvIds |->
             [assignedToId |-> IF c = 1 THEN assignee ELSE NoUser, mergedIntoId |-> 0,
              mailboxId |-> c, status |-> "open", hasContent |-> FALSE]]
    /\ baseWorkload = [u \in Users |-> 0]
    /\ \E roles \in [Users -> {"core", "nonCore"}] :
          roster = [u \in Users |-> [role |-> roles[u], keywords |-> FALSE]]
    /\ cache \in [Mailboxes -> CursorValues]
    /\ proc = [p \in Procs |-> Idle(NoResult)]
    /\ calls = 0
    /\ transitions = [k \in Pairs |-> 0]

QueueSpec == QueueInit /\ [][RotationNext]_vars

\* The sweep on its cadence.  The user u1 calls updateStatus and
\* recordActivity through p1 until the inactivity timeout elapses; p2 invokes
\* the sweep again and again.
Elapse ==
    /\ clock <= MaxTime
    /\ clock' = clock + AutoAwayTicks
    /\ UNCHANGED <<proc, calls>>
    /\ UnchangedStores

\* a transaction of process p that commits
UuaTxCommits(p) == UuaTx(p) /\ proc'[p].result.kind # "error"

LiveNext ==
    \/ \E s \in availabilityStatusEnum :
          clock <= MaxTime /\ updateStatus("p1", "u1", 1, s, NoText)
    \/ clock <= MaxTime /\ recordActivity("p1", "u1", 1)
    \/ clock <= MaxTime /\ armAutoAway("p1", "u1", 1, Deadline)
    \/ UuaRead("p1")
    \/ UuaTx("p1")
    \/ Elapse
    \/ scheduledSweep("p2")
    \/ SweepAway("p2")
    \/ UuaRead("p2")
    \/ UuaTx("p2")

\* time passes, the sweeper runs, and its transactions do not fail for ever
LiveFairness ==
    /\ WF_vars(Elapse)
    /\ WF_vars(scheduledSweep("p2"))
    /\ WF_vars(SweepAway("p2"))
    /\ WF_vars(UuaRead("p2"))
    /\ SF_vars(UuaTxCommits("p2"))
    /\ WF_vars(UuaRead("p1"))
    /\ WF_vars(UuaTx("p1"))

LiveSpec == Init /\ [][LiveNext]_vars /\ LiveFairness

\* The score of one member: any status, role and workload, matched or not
MaxWorkload == 11

\* selectBestMember, lines 177-181, for the member u alone
ScoreMember(p, u, matched) ==
    /\ proc[p].pc = "idle"
    /\ proc[p].membersWithScores = <<>>
    /\ LET member == TeamMember(userAvailability, conversations, baseWorkload, roster, u, 1)
       IN  proc' = [proc EXCEPT ![p] =
              [Idle(NoResult) EXCEPT !.membersWithScores =
                  <<[member |-> member, score |-> calculateMemberScore(member, matched),
                     hasExpertise |-> matched]>>]]
    /\ UNCHANGED <<clock, conversations, baseWorkload, roster, cache, calls>>
    /\ UnchangedAvailability

ScoreInit ==
    /\ clock = 0
    /\ \E chosen \in [Users -> availabilityStatusEnum] :
          /\ userAvailability = InitialRows(RosterOrder, chosen)
          /\ statusSince = [k \in Pairs |-> 0]
    /\ availabilityHistory = <<>>
    /\ conversations = [c \in ConvIds |->
          [assignedToId |-> NoUser, mergedIntoId |-> 0, mailboxId |-> 1, status |-> "open",
           hasContent |-> TRUE]]
    /\ \E w \in 0 .. MaxWorkload : baseWorkload = [u \in Users |-> w]
    /\ \E role \in UserRoles : roster = [u \in Users |-> [role |-> role, keywords |-> TRUE]]
    /\ cache = [m \in Mailboxes |-> NoCursor]
    /\ proc = [p \in Procs |-> Idle(NoResult)]
    /\ calls = 0
    /\ transitions = [k \in Pairs |-> 0]

ScoreNext == \E u \in Users, matched \in BOOLEAN : ScoreMember("p1", u, matched)

ScoreSpec == ScoreInit /\ [][ScoreNext]_vars

\* The sweep over the records of two users.  A record is as calls at time 0
\* left it: created with its status or, when it carries a return deadline
\* without being away, set away with the deadline and then set to its status
\* by hand; the auto-away deadline armed by a call of updateUserAvailability
DeadlineValues == {NullTime, Deadline}

SweepRow(u, status, returnAt, awayAt) ==
    [InitialRow(u, status) EXCEPT !.scheduledReturnAt = returnAt, !.autoAwayAt = awayAt]

\* the history entry of the record's change from away to its status
LeftAway(row) == row.status # "away" /\ row.scheduledReturnAt # NullTime

SweepHistoryEntry(row) ==
    HistoryEntry(row.userId, row.mailboxId,
                 Updates(row.status, NoText, NoTime, NoTime, NoTime, NoText, "manual"),
                 [status |-> "away", lastStatusChangeAt |-> 0], 0)

SweepInit ==
    /\ clock = 0
    /\ \E status \in [Users -> availabilityStatusEnum],
          returnAt \in [Users -> DeadlineValues], awayAt \in [Users -> DeadlineValues] :
          LET rows == [i \in DOMAIN RosterOrder |->
                         SweepRow(RosterOrder[i], status[RosterOrder[i]],
                                  returnAt[RosterOrder[i]], awayAt[RosterOrder[i]])]
              left == SelectSeq(rows, LeftAway)
          IN  /\ userAvailability = rows
              /\ availabilityHistory = [i \in DOMAIN left |-> SweepHistoryEntry(left[i])]
              /\ transitions = [k \in Pairs |->
                    IF \E i \in DOMAIN left : left[i].userId = k[1] THEN 1 ELSE 0]
    /\ statusSince = [k \in Pairs |-> 0]
    /\ conversations = [c \in ConvIds |->
          [assignedToId |-> NoUser, mergedIntoId |-> 0, mailboxId |-> 1, status |-> "open",
           hasContent |-> TRUE]]
    /\ baseWorkload = [u \in Users |-> 0]
    /\ roster = [u \in Users |-> [role |-> "core", keywords |-> FALSE]]
    /\ cache = [m \in Mailboxes |-> NoCursor]
    /\ proc = [p \in Procs |-> Idle(NoResult)]
    /\ calls = 0

SweepNext ==
    \/ sweep("p1")
    \/ SweepAway("p1")
    \/ UuaRead("p1")
    \/ UuaTx("p1")

SweepSpec == SweepInit /\ [][SweepNext]_vars

\* availabilityRouter.getAnalytics, part_001 lines 404-413: one query, then
\* the computation; the frame keeps the input and the returned value
getAnalytics(p, m, startDate, endDate) ==
    /\ proc[p].pc = "idle"
    /\ proc' = [proc EXCEPT ![p] =
          [Idle(Result("ok", "analytics", FALSE)) EXCEPT
              !.op = "getAnalytics", !.mailboxId = m,
              !.startDate = startDate, !.endDate = endDate,
              !.analytics = getAvailabilityAnalytics(availabilityHistory, m,
                                                     startDate, endDate)]]
    /\ UNCHANGED <<clock, calls>>
    /\ UnchangedStores

\* The analytics over a history of up to two rows, each as the table admits
\* it: of either mailbox, created at any tick, with durationSeconds null (the
\* column is nullable, part_000 line 47) or one of 0 .. MaxTime seconds
HistorySlots == {1, 2}
Durations == {NullDuration} \cup (0 .. MaxTime)
AnalyticsStatuses == {"online", "away"}

AnalyticsRow(m, from, duration, createdAt) ==
    [userId |-> "u1", mailboxId |-> m, fromStatus |-> from,
     toStatus |-> IF from = "online" THEN "away" ELSE "online",
     durationSeconds |-> duration, changeReason |-> "manual", createdAt |-> createdAt]

AnalyticsRows ==
    {AnalyticsRow(m, from, d, t) :
        m \in Mailboxes, from \in AnalyticsStatuses, d \in Durations, t \in 0 .. MaxTime}

AnalyticsInit ==
    /\ clock = MaxTime
    /\ userAvailability = <<InitialRow("u1", "online")>>
    /\ statusSince = [k \in Pairs |-> IF k = <<"u1", 1>> THEN 0 ELSE NullTime]
    /\ \E n \in HistorySlots \cup {0} : \E rows \in [1 .. n -> AnalyticsRows] :
          availabilityHistory = rows
    /\ conversations = [c \in ConvIds |->
          [assignedToId |-> NoUser, mergedIntoId |-> 0, mailboxId |-> 1, status |-> "open",
           hasContent |-> TRUE]]
    /\ baseWorkload = [u \in Users |-> 0]
    /\ roster = [u \in Users |-> [role |-> "core", keywords |-> FALSE]]
    /\ cache = [m \in Mailboxes |-> NoCursor]
    /\ proc = [p \in Procs |-> Idle(NoResult)]
    /\ calls = 0
    /\ transitions = [k \in Pairs |-> 0]

AnalyticsNext ==
    \E m \in Mailboxes, startDate \in 0 .. MaxTime, endDate \in 0 .. MaxTime :
        getAnalytics("p1", m, startDate, endDate)

AnalyticsSpec == AnalyticsInit /\ [][AnalyticsNext]_vars

-----------------------------------------------------------------------------
(* Properties of the availability state machine *)

HistoryOf(hist, k) == SelectSeq(hist, LAMBDA e : e.userId = k[1] /\ e.mailboxId = k[2])

\* the step is the transaction of the call of process p
IsTxOf(p) == proc[p].pc = "uua_tx" /\ proc'[p].pc # "uua_tx"

PairOf(p) == <<proc[p].userId, proc[p].mailboxId>>

\* the stored status of the pair is s (in every row of the pair)
StoredStatusIs(rows, k, s) ==
    RowsOf(rows, k[1], k[2]) # <<>> /\ StatusesOf(rows, k[1], k[2]) = {s}

\* C1: calls running one after the other: for every (user, mailbox) pair
\* the number of history entries equals the number of status transitions of
\* its record.
C1_HistoryCountsTransitions ==
    \A k \in Pairs : Len(HistoryOf(availabilityHistory, k)) = transitions[k]

C1_Witness ==
    /\ transitions[<<"u1", 1>>] = 2
    /\ Len(HistoryOf(availabilityHistory, <<"u1", 1>>)) = 2

\* C2: every history entry's durationSeconds is the time elapsed between the
\* status transition before it and the transition it records (the time
\* spent in fromStatus), whatever field patches came in between.
C2_DurationIsTimeInFromStatus ==
    [][\A p \in Procs :
          (IsTxOf(p) /\ Len(availabilityHistory') > Len(availabilityHistory))
          => availabilityHistory'[Len(availabilityHistory')].durationSeconds
                = DurationSeconds(proc[p].now, statusSince[PairOf(p)])]_vars

\* C3: a setStatus whose status equals the record's current status leaves
\* lastStatusChangeAt unchanged.
C3_SameStatusKeepsLastStatusChangeAt ==
    [][\A p \in Procs :
          (IsTxOf(p) /\ StoredStatusIs(userAvailability, PairOf(p), proc[p].updates.status))
          => \A i \in DOMAIN userAvailability :
                userAvailability'[i].lastStatusChangeAt = userAvailability[i].lastStatusChangeAt]_vars

\* C4: a setStatus whose status equals the record's current status appends
\* no history entry, whatever other fields it carries.
C4_SameStatusAppendsNoHistory ==
    [][\A p \in Procs :
          (IsTxOf(p) /\ StoredStatusIs(userAvailability, PairOf(p), proc[p].updates.status))
          => availabilityHistory' = availabilityHistory]_vars

\* a completed updateStatus with the stored status and a new message: the
\* record carries the message, its status has been the same since time 0
C4_Witness ==
    /\ calls = 1
    /\ proc["p1"].result = Result("ok", "none", FALSE)
    /\ availabilityHistory = <<>>
    /\ statusSince[<<"u1", 1>>] = 0
    /\ \E r \in Range(userAvailability) :
          r.userId = "u1" /\ r.customMessage = "msg" /\ r.lastActivityAt = 1 /\ r.status = "busy"

\* C5: when the publish of 'availability.updated' fails, the record update
\* and the history entry of that call are committed all the same.
C5_BroadcastFailureKeepsCommit ==
    [][\A p \in Procs :
          (IsTxOf(p) /\ proc'[p].pc = "idle" /\ proc'[p].result.detail = "publish_failed")
          => LET w == TxWrites(userAvailability, availabilityHistory, proc[p].userId,
                               proc[p].mailboxId, proc[p].updates, proc[p].current,
                               proc[p].now, "publish_failed")
             IN  userAvailability' = w.rows /\ availabilityHistory' = w.hist]_vars

\* C6: the history insert and the record update of a status change are
\* applied together or not at all: a step that appends a history entry also
\* stores its toStatus in the record, a call that threw changed nothing, and
\* a status-changing call that returned did both.
C6_InsertAndUpdateAtomic ==
    [][\A p \in Procs :
          IsTxOf(p) =>
            LET k == PairOf(p)
                appended == Len(availabilityHistory') > Len(availabilityHistory)
                statusChanging == proc[p].current # <<>> /\ proc[p].updates.status # NoStatus
                                  /\ proc[p].updates.status # proc[p].current[1].status
                returned == proc'[p].pc # "idle" \/ proc'[p].result.kind = "ok"
            IN  /\ appended =>
                     /\ availabilityHistory'[Len(availabilityHistory')].toStatus = proc[p].updates.status
                     /\ StoredStatusIs(userAvailability', k, proc[p].updates.status)
                     /\ \A r \in Range(RowsOf(userAvailability', k[1], k[2])) :
                           r.lastStatusChangeAt = proc[p].now
                /\ ~returned =>
                     userAvailability' = userAvailability /\ availabilityHistory' = availabilityHistory
                /\ (returned /\ statusChanging) =>
                     appended /\ StoredStatusIs(userAvailability', k, proc[p].updates.status)]_vars

\* a status-changing call whose record write threw after its history insert
\* had been issued: nothing of it is stored
C6_Witness ==
    /\ calls = 1
    /\ proc["p1"].result = Result("error", "write_failed", TRUE)
    /\ availabilityHistory = <<>>
    /\ transitions[<<"u1", 1>>] = 0

\* C7: concurrent status changes serialize: the history of a pair is a chain
\* (each entry starts from the status the previous one ended in) and its
\* last entry ends in the record's current status.
C7_HistoryIsSerialChain ==
    \A k \in Pairs :
       LET h == HistoryOf(availabilityHistory, k)
       IN  /\ \A i \in 2 .. Len(h) : h[i].fromStatus = h[i - 1].toStatus
           /\ h # <<>> => StoredStatusIs(userAvailability, k, h[Len(h)].toStatus)

\* C8: at most one availability record per (user, mailbox) pair.
C8_OneRecordPerPair ==
    \A k \in Pairs : Len(RowsOf(userAvailability, k[1], k[2])) <= 1

-----------------------------------------------------------------------------
(* Properties of the assignment engine *)

\* the step is the begin of a call of autoAssignConversation by process p
IsAssignBeginOf(p) ==
    /\ proc[p].pc = "idle"
    /\ calls' = calls + 1
    /\ proc'[p].convId \in ConvIds
    /\ \A q \in Procs \ {p} : proc'[q] = proc[q]

\* C9: an assignment attempted on an item that is already assigned or merged,
\* or on a mailbox without an active roster member, ends at once as a skip
\* and writes nothing: assignee, rotation cursor, availability records and
\* history are unchanged.
C9_PreconditionSkipWritesNothing ==
    [][\A p \in Procs :
          IsAssignBeginOf(p) =>
            LET conv == conversations[proc'[p].convId]
            IN  (conv.assignedToId # NoUser \/ conv.mergedIntoId # 0
                 \/ ActiveTeamMembers(roster) = <<>>)
                => /\ proc'[p].pc = "idle"
                   /\ proc'[p].result.kind = "skipped"
                   /\ UNCHANGED <<conversations, cache, userAvailability, availabilityHistory>>]_vars

C9_Witness ==
    /\ proc["p1"].result = Result("skipped", "conversation is merged", FALSE)
    /\ proc["p1"].pc = "idle"
    /\ conversations[1].mergedIntoId # 0
    /\ conversations[1].assignedToId = NoUser
    /\ availabilityHistory = <<>>

\* C10: among the candidates of the top score the one of lowest workload is
\* selected, and the rotation cursor is used only when at least two of them
\* are also tied on that workload.
C10_LowestWorkloadBreaksScoreTie ==
    [][\A p \in Procs :
          (proc[p].pc \in {"aa_members", "aa_cache_set"} /\ proc'[p].pc = "rua_read")
          => LET top == proc'[p].top
                 chosen == CHOOSE i \in DOMAIN top : top[i].member.id = proc'[p].selected
                 lowest == {i \in DOMAIN top :
                              \A j \in DOMAIN top :
                                 top[i].member.currentWorkload <= top[j].member.currentWorkload}
             IN  /\ chosen \in lowest
                 /\ proc[p].pc = "aa_cache_set" => Cardinality(lowest) >= 2]_vars

\* the candidates are tied on score and on workload
TiedOnScoreAndWorkload(top) ==
    \A i, j \in DOMAIN top :
       top[i].score = top[j].score /\ top[i].member.currentWorkload = top[j].member.currentWorkload

\* C11: two candidates tied on score and workload, the tie set not changed
\* by the previous assignment: the cursor written is the persisted one (0
\* when absent) plus one modulo 2, and the member selected is not the one the
\* previous call selected: the one at the persisted cursor, to whom the first
\* call assigned the other conversation when this is the second call.
C11_TiedCandidatesAlternate ==
    [][\A p \in Procs :
          (proc[p].pc = "aa_cache_set" /\ proc'[p].pc = "rua_read"
           /\ Len(proc[p].top) = 2 /\ TiedOnScoreAndWorkload(proc[p].top))
          => LET m == proc[p].mailboxId
                 persisted == IF cache[m] = NoCursor THEN 0 ELSE cache[m]
             IN  /\ cache'[m] = (persisted + 1) % 2
                 /\ proc'[p].selected = proc[p].top[cache'[m] + 1].member.id
                 /\ cache[m] \in {0, 1}
                    => proc'[p].selected # proc[p].top[cache[m] + 1].member.id
                 /\ \A c \in ConvIds \ {proc[p].convId} :
                       (calls = 2 /\ conversations[c].assignedToId # NoUser
                        /\ conversations[c].status # "open")
                       => proc'[p].selected # conversations[c].assignedToId]_vars

\* two calls on a mailbox whose two members are tied: each got one of the two
\* conversations
C11_Witness ==
    /\ calls = 2
    /\ proc["p1"].pc = "idle" /\ proc["p1"].result.kind = "assigned"
    /\ conversations[1].assignedToId # NoUser
    /\ conversations[2].assignedToId # NoUser
    /\ conversations[1].assignedToId # conversations[2].assignedToId
    /\ \A c \in ConvIds : conversations[c].status = "closed"
    /\ baseWorkload["u1"] = baseWorkload["u2"]
    /\ roster["u1"].role = roster["u2"].role
    /\ \A r \in Range(userAvailability) : r.status = "online"

\* C12: a failure of the expertise matcher does not fail the assignment: the
\* call goes on (with an empty match set) and ends assigned or skipped.
C12_MatcherFailureNeverFails ==
    [][\A p \in Procs :
          (proc[p].pc = "aa_members" /\ proc'[p].pc # "aa_members")
          => proc'[p].result.kind # "error"]_vars

\* the member is strictly under the threshold of its status
UnderThreshold(member) ==
    \/ member.status = "online" /\ member.currentWorkload < 8
    \/ member.status = "busy" /\ member.currentWorkload < 3

\* the active roster members whose record says online or busy
AvailableIds(rows, team) ==
    {u \in Users : /\ team[u].role \in {"core", "nonCore"}
                   /\ \E r \in Range(rows) : r.userId = u /\ r.status \in {"online", "busy"}}

IdsOf(members) == {members[i].member.id : i \in DOMAIN members}

\* C13: the candidates considered are the available members strictly under
\* their threshold, or all available members when none is under it; with an
\* available member the call does not skip, and selects a considered one.
C13_WorkloadGateWithFallback ==
    [][\A p \in Procs :
          /\ (proc[p].pc = "aa_members" /\ proc'[p].pc # "aa_members"
               /\ proc'[p].result.kind # "error"
               /\ AvailableIds(userAvailability, roster) # {})
              => LET considered == proc'[p].membersWithScores
                     under == {i \in DOMAIN considered : UnderThreshold(considered[i].member)}
                     capable == {u \in AvailableIds(userAvailability, roster) :
                                   UnderThreshold(TeamMember(userAvailability, conversations,
                                                             baseWorkload, roster, u, proc[p].mailboxId))}
                 IN  /\ proc'[p].pc \in {"rua_read", "aa_cache_get"}
                     /\ IdsOf(considered) = IF capable # {} THEN capable
                                            ELSE AvailableIds(userAvailability, roster)
                     /\ under # {} => under = DOMAIN considered
          /\ (proc[p].pc \in {"aa_members", "aa_cache_set"} /\ proc'[p].pc = "rua_read")
              => proc'[p].selected \in IdsOf(proc'[p].membersWithScores)]_vars

\* a busy member at workload 3 assigned because nobody passes the gate
C13_Witness ==
    /\ calls = 1
    /\ proc["p1"].result = Result("assigned", "u1", FALSE)
    /\ conversations[1].assignedToId = "u1"
    /\ baseWorkload["u1"] = 3
    /\ StatusesOf(userAvailability, "u1", 1) = {"busy"}
    /\ StatusesOf(userAvailability, "u2", 1) = {"busy"}
    /\ baseWorkload["u2"] = 3
    /\ roster["u2"].role = "nonCore"

\* C14: when no active roster member has a record saying online or busy, the
\* call ends as a skip with the diagnostic 'No team members available for
\* assignment': no error, the conversation and the cursor unchanged.
C14_NobodyAvailableSkips ==
    [][\A p \in Procs :
          (proc[p].pc = "aa_members" /\ proc'[p].pc # "aa_members"
           /\ AvailableIds(userAvailability, roster) = {})
          => /\ proc'[p].pc = "idle"
             /\ proc'[p].result = Result("skipped", "No team members available for assignment", FALSE)
             /\ UNCHANGED <<conversations, cache, userAvailability, availabilityHistory>>]_vars

\* a skip on a mailbox whose only active member has no availability record
C14_Witness ==
    /\ proc["p1"].pc = "idle"
    /\ proc["p1"].result = Result("skipped", "No team members available for assignment", FALSE)
    /\ roster["u1"].role = "core" /\ roster["u2"].role = "afk"
    /\ RowsOf(userAvailability, "u1", 1) = <<>>
    /\ StatusesOf(userAvailability, "u2", 1) = {"online"}
    /\ conversations[1].assignedToId = NoUser
    /\ cache[1] = 1

\* the highest score among the scored members
BestScore(scored) ==
    CHOOSE b \in {scored[i].score : i \in DOMAIN scored} :
       \A i \in DOMAIN scored : scored[i].score <= b

\* C15: the member selected has the maximum score among the candidates
\* considered; when one candidate alone has it, it is selected without the
\* rotation cursor being read or written.
C15_MaximumScoreSelected ==
    [][\A p \in Procs :
          (proc[p].pc \in {"aa_members", "aa_cache_set"} /\ proc'[p].pc = "rua_read")
          => LET scored == proc'[p].membersWithScores
                 best == BestScore(scored)
             IN  /\ \E i \in DOMAIN scored :
                       scored[i].member.id = proc'[p].selected /\ scored[i].score = best
                 /\ Cardinality({i \in DOMAIN scored : scored[i].score = best}) = 1
                    => proc[p].pc = "aa_members" /\ cache' = cache]_vars

\* {online, workload 2} = 90 chosen over {busy, workload 0} = 50, with a
\* cursor stored that is left alone
C15_Witness ==
    /\ calls = 1
    /\ proc["p1"].result = Result("assigned", "u1", FALSE)
    /\ StatusesOf(userAvailability, "u1", 1) = {"online"} /\ baseWorkload["u1"] = 2
    /\ StatusesOf(userAvailability, "u2", 1) = {"busy"} /\ baseWorkload["u2"] = 0
    /\ roster["u1"].role = "nonCore" /\ roster["u2"].role = "nonCore"
    /\ ~roster["u1"].keywords
    /\ cache[1] = 1

\* C16: score = priority[status] - min(workload * 5, 50) + 25 if matched
\* + 10 if core, floored at 0, with priority online 100, busy 50, away 0,
\* offline 0; never negative.
C16_ScoreFormula ==
    \A p \in Procs : \A i \in DOMAIN proc[p].membersWithScores :
       LET e == proc[p].membersWithScores[i]
           priority == CASE e.member.status = "online" -> 100
                         [] e.member.status = "busy" -> 50
                         [] e.member.status = "away" -> 0
                         [] e.member.status = "offline" -> 0
           penalty == IF e.member.currentWorkload * 5 < 50 THEN e.member.currentWorkload * 5 ELSE 50
           raw == priority - penalty + (IF e.hasExpertise THEN 25 ELSE 0)
                  + (IF e.member.role = "core" THEN 10 ELSE 0)
       IN  e.score = (IF raw < 0 THEN 0 ELSE raw) /\ e.score >= 0

\* an away core member of workload 10 or more, matched: 0 - 50 + 25 + 10
\* floored to 0
C16_Witness ==
    \E i \in DOMAIN proc["p1"].membersWithScores :
       LET e == proc["p1"].membersWithScores[i]
       IN  /\ e.member.status = "away" /\ e.member.currentWorkload >= 10
           /\ e.member.role = "core" /\ e.hasExpertise
           /\ e.score = 0

\* C21: no lost update of the rotation cursor: two selections in flight at
\* the same time over the same tie set of two never pick the same member.
C21_ConcurrentTieBreaksDiffer ==
    \A p, q \in Procs :
       (/\ p # q
        /\ proc[p].selected # "none" /\ proc[q].selected # "none"
        /\ Len(proc[p].top) = 2 /\ proc[p].top = proc[q].top
        /\ TiedOnScoreAndWorkload(proc[p].top))
       => proc[p].selected # proc[q].selected

\* C29: the assignee of a conversation is written once: when it is set, no
\* later step sets it to another member.
C29_AssigneeWrittenOnce ==
    [][\A c \in ConvIds :
          conversations[c].assignedToId # NoUser
          => conversations'[c].assignedToId = conversations[c].assignedToId]_vars

\* C23: the rotation cursor of a mailbox changes only in an assignment on
\* that mailbox in which two or more candidates share the top score; skips,
\* assignments with a single top candidate and assignments on the other
\* mailbox leave it unchanged.
C23_CursorAdvancedOnlyByTieBreak ==
    [][\A m \in Mailboxes :
          cache'[m] # cache[m]
          => \E p \in Procs :
                /\ proc[p].op = "autoAssign" /\ proc'[p].selected # "none"
                /\ conversations[proc[p].convId].mailboxId = m
                /\ LET scored == proc[p].membersWithScores
                   IN  Cardinality({i \in DOMAIN scored : scored[i].score = BestScore(scored)}) >= 2]_vars

\* a tie broken on mailbox 2 that advanced its cursor from 1 to 0 and left
\* the cursor of mailbox 1 alone
C23_Witness ==
    /\ calls = 1
    /\ proc["p1"].result.kind = "assigned"
    /\ conversations[2].assignedToId # NoUser /\ conversations[2].mailboxId = 2
    /\ cache[1] = 1 /\ cache[2] = 0

-----------------------------------------------------------------------------
(* Properties of the sweep *)

\* the history entries of the pair k with the given statuses and reason
EntriesOf(hist, k, from, to, reason) ==
    {i \in DOMAIN hist : /\ hist[i].userId = k[1] /\ hist[i].mailboxId = k[2]
                         /\ hist[i].fromStatus = from /\ hist[i].toStatus = to
                         /\ hist[i].changeReason = reason}

\* the step ends the sweep of process p without an error
IsSweepEndOf(p) ==
    proc[p].op = "sweep" /\ proc'[p].pc = "idle" /\ proc'[p].result.kind = "ok"

SweptPairs(hist) ==
    {k \in Pairs : \E i \in DOMAIN hist :
        /\ hist[i].userId = k[1] /\ hist[i].mailboxId = k[2]
        /\ hist[i].changeReason \in {"scheduled", "auto_inactivity"}}

C19_SweepIsolatesFailure ==
    [][\A p \in Procs :
          (IsTxOf(p) /\ proc[p].op = "sweep" /\ proc'[p].result.kind = "error")
          => /\ proc[p].pending = <<>>
             /\ \/ proc[p].updates = AwayUpdates
                \/ AutoAwayUsers(userAvailability', proc[p].sweepNow) = <<>>]_vars

\* C22: with the sweep invoked again and again, a user who is online when
\* the inactivity timeout has elapsed since the last activity, and who has
\* no call in progress and starts none, is eventually set away by an
\* online -> away history entry with reason auto_inactivity.
C22_InactiveOnlineGoesAway ==
    (/\ StoredStatusIs(userAvailability, <<"u1", 1>>, "online")
     /\ LET r == RowsOf(userAvailability, "u1", 1)[1]
        IN  /\ r.lastActivityAt + AutoAwayTicks <= clock
            /\ r.lastStatusChangeAt + AutoAwayTicks <= clock
     /\ proc["p1"].pc = "idle")
    ~> (/\ StoredStatusIs(userAvailability, <<"u1", 1>>, "away")
        /\ EntriesOf(availabilityHistory, <<"u1", 1>>,
                     "online", "away", "auto_inactivity") # {})

\* the (user, mailbox) pairs the first query of the running sweep of process
\* p returned; the sweep reaches its second pass only when every one of them
\* has been updated without an error
ReturnedBySweepOf(p) == {proc[p].scheduledReturns[i] : i \in DOMAIN proc[p].scheduledReturns}

-----------------------------------------------------------------------------
(* Properties of the activity ping *)

\* C20: recordActivity on a record whose status is offline or away sets it
\* online and appends exactly one history entry, of reason auto_activity and
\* with fromStatus the previous status.
C20_ActivityBringsBackOnline ==
    [][\A p \in Procs : \A s \in {"offline", "away"} :
          (IsTxOf(p) /\ proc[p].op = "recordActivity" /\ proc'[p].result.kind = "ok"
           /\ StoredStatusIs(userAvailability, PairOf(p), s))
          => /\ StoredStatusIs(userAvailability', PairOf(p), "online")
             /\ Len(availabilityHistory') = Len(availabilityHistory) + 1
             /\ LET e == availabilityHistory'[Len(availabilityHistory')]
                IN  /\ <<e.userId, e.mailboxId>> = PairOf(p)
                    /\ e.fromStatus = s /\ e.toStatus = "online"
                    /\ e.changeReason = "auto_activity"]_vars

\* an activity ping on an offline record, completed
C20_Witness ==
    /\ calls = 1
    /\ proc["p1"].result = Result("ok", "none", TRUE)
    /\ Len(availabilityHistory) = 1
    /\ availabilityHistory[1].fromStatus = "offline"
    /\ availabilityHistory[1].toStatus = "online"
    /\ availabilityHistory[1].changeReason = "auto_activity"
    /\ StoredStatusIs(userAvailability, <<"u1", 1>>, "online")

-----------------------------------------------------------------------------
(* Properties of the status query and of the stored record *)

\* the step is a call of getMyStatus by process p that returns
IsStatusQueryOf(p) == proc[p].pc = "idle" /\ proc'[p].op = "getMyStatus" /\ proc'[p] # proc[p]

\* C26: getMyStatus for a (user, mailbox) pair without a stored record
\* returns a record whose status is offline, and stores nothing.
C26_MissingRecordReadsOffline ==
    [][\A p \in Procs :
          (/\ IsStatusQueryOf(p)
           /\ RowsOf(userAvailability, proc'[p].userId, proc'[p].mailboxId) = <<>>)
          => /\ proc'[p].current # <<>>
             /\ \A i \in DOMAIN proc'[p].current : proc'[p].current[i].status = "offline"
             /\ userAvailability' = userAvailability
             /\ availabilityHistory' = availabilityHistory]_vars

\* the transaction of the call of process p creates the record of its pair
IsCreationBy(p) ==
    /\ IsTxOf(p) /\ proc'[p].result.kind = "ok"
    /\ RowsOf(userAvailability, proc[p].userId, proc[p].mailboxId) = <<>>
    /\ RowsOf(userAvailability', proc[p].userId, proc[p].mailboxId) # <<>>

\* C27: a record created by a call that names no status starts offline,
\* unless the call is an activity ping, whose record starts online.
C27_CreatedWithoutStatusIsOffline ==
    [][\A p \in Procs :
          IsCreationBy(p)
          => /\ (proc[p].op # "recordActivity" /\ proc[p].updates.status = NoStatus)
                   => StoredStatusIs(userAvailability', PairOf(p), "offline")
             /\ proc[p].op = "recordActivity"
                   => StoredStatusIs(userAvailability', PairOf(p), "online")]_vars

\* C28: in every state, a record whose scheduledReturnAt is set is away.
C28_ReturnDeadlineOnlyWhileAway ==
    \A i \in DOMAIN userAvailability :
       userAvailability[i].scheduledReturnAt # NullTime => userAvailability[i].status = "away"

\* C30: in every state, with calls interleaved, a history entry of reason
\* scheduled goes from away to online, one of reason auto_inactivity from
\* online to away, and one of reason auto_activity from away or offline to
\* online.
C30_ReasonMatchesEndpoints ==
    \A i \in DOMAIN availabilityHistory :
       LET e == availabilityHistory[i]
       IN  /\ e.changeReason = "scheduled"
                => (e.fromStatus = "away" /\ e.toStatus = "online")
           /\ e.changeReason = "auto_inactivity"
                => (e.fromStatus = "online" /\ e.toStatus = "away")
           /\ e.changeReason = "auto_activity"
                => (e.fromStatus \in {"away", "offline"} /\ e.toStatus = "online")

-----------------------------------------------------------------------------
(* Properties of assignment against concurrent status changes *)

\* C31: the activity recorded for the winner of an assignment changes no
\* status and appends no history entry, also when the winner changes status
\* between the workload sample and the commit.
C31_AssignmentKeepsStatuses ==
    [][\A p \in Procs :
          (IsTxOf(p) /\ proc[p].op = "autoAssign")
          => /\ \A k \in Pairs :
                   StatusesOf(userAvailability', k[1], k[2])
                      = StatusesOf(userAvailability, k[1], k[2])
             /\ availabilityHistory' = availabilityHistory]_vars

\* C32: with calls interleaved and a clock that never runs backwards, no
\* step lowers lastStatusChangeAt or lastActivityAt of a stored record.
C32_TimestampsNeverDecrease ==
    [][\A i \in DOMAIN userAvailability :
          i \in DOMAIN userAvailability'
          => /\ userAvailability'[i].lastStatusChangeAt >= userAvailability[i].lastStatusChangeAt
             /\ userAvailability'[i].lastActivityAt >= userAvailability[i].lastActivityAt]_vars

-----------------------------------------------------------------------------
(* Properties of the analytics *)

\* the call of process p that returned analytics, and the rows it covered
ReturnedAnalytics(p) == proc[p].op = "getAnalytics"

RangeOf(p) ==
    HistoryInRange(availabilityHistory, proc[p].mailboxId, proc[p].startDate, proc[p].endDate)

RowsWithDuration(history) ==
    {i \in DOMAIN history : history[i].durationSeconds # NullDuration}

RECURSIVE SumOfDurations(_, _)
SumOfDurations(history, from) ==
    IF history = <<>> THEN 0
    ELSE (IF /\ Head(history).durationSeconds # NullDuration
             /\ from \in {NoStatus, Head(history).fromStatus}
          THEN Head(history).durationSeconds ELSE 0)
         + SumOfDurations(Tail(history), from)

C25_DistributionIsCumulativeDuration ==
    \A p \in Procs : \A s \in availabilityStatusEnum :
       ReturnedAnalytics(p)
       => proc[p].analytics.statusDistribution[s] = SumOfDurations(RangeOf(p), s)

====
